---- MODULE Spec2Model ----
(***************************************************************************)
(* The ARYA chat relay of src/server/routes.ts (POST /api/arya/chat, the   *)
(* sarvam-m handler at lines 335-405): request validation, composition of  *)
(* the system turn, the streaming loop with its emergency scan, and the    *)
(* catch block; the framing of its events and the chat screen that reads   *)
(* them (src/client/screens/AryaScreen.tsx, sendMessage); the seeding of   *)
(* the alternative-medicine tables (routes.ts:286-328); and the scheduling *)
(* of the check-in notifications (src/client/hooks/useNotifications.ts).   *)
(*                                                                         *)
(* Text that the code inspects character by character (the upstream        *)
(* fragments, fullResponse) is a sequence of one-character strings.  Text  *)
(* that the code only concatenates (the prompt, the turns) is a string.    *)
(* A JavaScript value that may be undefined is a record [def, val].        *)
(***************************************************************************)
EXTENDS Integers, Sequences, FiniteSets, TLC

\* ------------------------------------------------------------------ bounds
\* The upstream stream delivers at most MaxChunks chunks before it ends or fails.
MaxChunks == 3

\* The caller's messages array holds at most MaxTurns turns.
MaxTurns == 2

\* In the runs of concurrent requests each stream delivers at most
\* MaxConcurrentChunks chunks.
MaxConcurrentChunks == 2

\* ---------------------------------------------------------- JavaScript values
Undefined == [def |-> FALSE, val |-> ""]

Str(s) == [def |-> TRUE, val |-> s]

NoList == [def |-> FALSE, val |-> <<>>]

List(l) == [def |-> TRUE, val |-> l]

OrDefault_NullishOnly(x, d) == IF x.def THEN x.val ELSE d

\* x || d for a string that may be undefined: undefined and "" are falsy.
OrDefault(x, d) == IF x.def /\ x.val # "" THEN x.val ELSE d

RECURSIVE Join(_, _)
\* Array.prototype.join
Join(l, sep) ==
  IF l = <<>> THEN ""
  ELSE IF Len(l) = 1 THEN l[1]
  ELSE l[1] \o sep \o Join(Tail(l), sep)

\* list?.join(", ") || d : an undefined list, an empty list and a list that
\* joins to "" all give d.
JoinOrDefault(l, d) ==
  IF ~l.def THEN d
  ELSE IF Join(l.val, ", ") = "" THEN d ELSE Join(l.val, ", ")

\* ------------------------------------------------------------ request bodies
Roles == {"user", "assistant", "system"}

Turn(r, c) == [role |-> r, content |-> c]

\* req.body.messages: kind is what typeof / Array.isArray see; turns is the
\* array's content (empty for the kinds that are no array).
Messages(k, t) == [kind |-> k, turns |-> t]

ArrayOf(t) == Messages("array", t)

TurnContents == {"I have a mild headache", "It started today"}

AllTurns == {Turn(r, c) : r \in Roles, c \in TurnContents}

TurnSeqs == UNION {[1..n -> AllTurns] : n \in 0..MaxTurns}

NonArrayMessages ==
  {Messages("undefined", <<>>), Messages("null", <<>>), Messages("emptyString", <<>>),
   Messages("string", <<>>), Messages("object", <<>>)}

MessagesValues == NonArrayMessages \cup {ArrayOf(t) : t \in TurnSeqs}

\* req.body.userContext: kind "object" is a truthy object; "null" is what the
\* client sends when no user is signed in; "undefined" is the field left out.
UserContext(k, n, r, c, a) ==
  [kind |-> k, name |-> n, role |-> r, conditions |-> c, allergies |-> a]

AbsentContexts ==
  {UserContext(k, Undefined, Undefined, NoList, NoList) : k \in {"undefined", "null"}}

NameValues == {Undefined, Str(""), Str("Asha")}

RoleValues == {Undefined, Str("doctor")}

ConditionValues == {NoList, List(<<>>), List(<<"">>), List(<<"asthma", "diabetes">>)}

AllergyValues == {NoList, List(<<"penicillin">>)}

PresentContexts ==
  {UserContext("object", n, r, c, a) :
     n \in NameValues, r \in RoleValues, c \in ConditionValues, a \in AllergyValues}

UserContexts == AbsentContexts \cup PresentContexts

SystemPrompts == {Undefined, Str("be concise")}

Body(m, s, u) == [messages |-> m, systemPrompt |-> s, userContext |-> u]

\* Every request body of the bounded input space.
Requests ==
  {Body(m, s, u) : m \in MessagesValues, s \in SystemPrompts, u \in UserContexts}

\* The bodies the relay is run on to its end: the validation cases, and the
\* valid bodies with and without a user context.
RelayRequests ==
  {Body(m, Str("be concise"), u) :
     m \in NonArrayMessages \cup {ArrayOf(<<Turn("user", "I have a mild headache")>>)},
     u \in {UserContext("null", Undefined, Undefined, NoList, NoList),
            UserContext("object", Str("Asha"), Undefined, NoList,
                        List(<<"penicillin">>))}}

\* ------------------------------------------------------------- validation
\* JavaScript truthiness of req.body.messages
Truthy(m) == m.kind \notin {"undefined", "null", "emptyString"}

IsArray(m) == m.kind = "array"

ValidMessages_TruthyOnly(m) == Truthy(m)

\* the negation of: !messages || !Array.isArray(messages)
ValidMessages(m) == Truthy(m) /\ IsArray(m)

\* ------------------------------------------------------------- composition
ContextBlock(u) ==
  "\n\nUser Context:\n- Name: " \o OrDefault(u.name, "Unknown")
  \o "\n- Role: " \o OrDefault(u.role, "layperson")
  \o "\n- Known conditions: " \o JoinOrDefault(u.conditions, "None recorded")
  \o "\n- Known allergies: " \o JoinOrDefault(u.allergies, "None recorded")

EnhancedSystemPrompt_AlwaysBlock(systemPrompt, userContext) ==
  OrDefault(systemPrompt, "") \o ContextBlock(userContext)

\* let enhancedSystemPrompt = systemPrompt || ""; if (userContext) { += block }
EnhancedSystemPrompt(systemPrompt, userContext) ==
  IF userContext.kind = "object"
    THEN OrDefault(systemPrompt, "") \o ContextBlock(userContext)
    ELSE OrDefault(systemPrompt, "")

Slice1_None(turns) == turns

\* messages.slice(1)
Slice1(turns) == IF Len(turns) <= 1 THEN <<>> ELSE SubSeq(turns, 2, Len(turns))

\* [{role: "system", content}, ...messages.slice(1).map(m => ({role, content}))]
\* (m.role as "user" | "assistant" is a compile-time cast: the role is kept)
ChatMessages(messages, systemPrompt, userContext) ==
  <<Turn("system", EnhancedSystemPrompt(systemPrompt, userContext))>>
  \o [i \in 1..Len(Slice1(messages.turns)) |->
        Turn(Slice1(messages.turns)[i].role, Slice1(messages.turns)[i].content)]

\* ------------------------------------------------------------------- text
LowerLetters ==
  <<"a", "b", "c", "d", "e", "f", "g", "h", "i", "j", "k", "l", "m",
    "n", "o", "p", "q", "r", "s", "t", "u", "v", "w", "x", "y", "z">>

UpperLetters ==
  <<"A", "B", "C", "D", "E", "F", "G", "H", "I", "J", "K", "L", "M",
    "N", "O", "P", "Q", "R", "S", "T", "U", "V", "W", "X", "Y", "Z">>

LowerChar(c) ==
  IF \E i \in 1..Len(UpperLetters) : UpperLetters[i] = c
    THEN LowerLetters[CHOOSE i \in 1..Len(UpperLetters) : UpperLetters[i] = c]
    ELSE c

\* String.prototype.toLowerCase
ToLowerCase(s) == [i \in 1..Len(s) |-> LowerChar(s[i])]

\* String.prototype.includes
Includes(s, p) ==
  \E i \in 0..(Len(s) - Len(p)) : SubSeq(s, i + 1, i + Len(p)) = p

Call911 == <<"c", "a", "l", "l", " ", "9", "1", "1">>

EmergencyRoom == <<"e", "m", "e", "r", "g", "e", "n", "c", "y", " ", "r", "o", "o", "m">>

SeekImmediate == <<"s", "e", "e", "k", " ", "i", "m", "m", "e", "d", "i", "a", "t", "e">>

LifeThreatening ==
  <<"l", "i", "f", "e", "-", "t", "h", "r", "e", "a", "t", "e", "n", "i", "n", "g">>

Call112 == <<"c", "a", "l", "l", " ", "1", "1", "2">>

Call108 == <<"c", "a", "l", "l", " ", "1", "0", "8">>

Detect_FourPhrases(lowerContent) ==
  \/ Includes(lowerContent, Call911)
  \/ Includes(lowerContent, EmergencyRoom)
  \/ Includes(lowerContent, SeekImmediate)
  \/ Includes(lowerContent, LifeThreatening)

\* the condition of the if at routes.ts:381-388
Detect(lowerContent) ==
  \/ Includes(lowerContent, Call911)
  \/ Includes(lowerContent, EmergencyRoom)
  \/ Includes(lowerContent, SeekImmediate)
  \/ Includes(lowerContent, LifeThreatening)
  \/ Includes(lowerContent, Call112)
  \/ Includes(lowerContent, Call108)

\* ----------------------------------------------------------- upstream chunks
YouShould == <<"Y", "o", "u", " ", "s", "h", "o", "u", "l", "d">>

SpCall911 == <<" ", "c", "a", "l", "l", " ", "9", "1", "1">>

SpImmediately == <<" ", "i", "m", "m", "e", "d", "i", "a", "t", "e", "l", "y", ".">>

CapCall == <<"C", "a", "l", "l", " ">>

Digits911 == <<"9", "1", "1">>

\* chunk.choices[0]?.delta?.content || "" : a chunk without content reads as "".
NoContent == <<>>

\* What one upstream chunk may carry.
ChunkContents == {NoContent, YouShould, SpCall911, SpImmediately, CapCall, Digits911}

\* ------------------------------------------------------------------ events
\* The object handed to JSON.stringify in each res.write of the handler.
ContentEvent(content) == [type |-> "content", content |-> content]

EmergencyEvent == [type |-> "emergency", content |-> <<>>]

DoneEvent == [type |-> "done", content |-> <<>>]

ErrorEvent == [type |-> "error", content |-> <<>>]

\* ------------------------------------------------------ the handler's writes
FullResponseAfter_Replaces(fullResponse, content) ==
  IF content # NoContent THEN content ELSE fullResponse

\* fullResponse += content, inside if (content)
FullResponseAfter(fullResponse, content) ==
  IF content # NoContent THEN fullResponse \o content ELSE fullResponse

ChunkWrites_AlsoForEmpty(fullResponse, content) ==
  <<ContentEvent(content)>>
  \o (IF Detect(ToLowerCase(FullResponseAfter(fullResponse, content)))
        THEN <<EmergencyEvent>> ELSE <<>>)

ChunkWrites_ScanFragmentOnly(fullResponse, content) ==
  IF content # NoContent
    THEN <<ContentEvent(content)>>
         \o (IF Detect(ToLowerCase(content)) THEN <<EmergencyEvent>> ELSE <<>>)
    ELSE <<>>

ChunkWrites_SendsAccumulated(fullResponse, content) ==
  IF content # NoContent
    THEN <<ContentEvent(FullResponseAfter(fullResponse, content))>>
         \o (IF Detect(ToLowerCase(FullResponseAfter(fullResponse, content)))
               THEN <<EmergencyEvent>> ELSE <<>>)
    ELSE <<>>

ChunkWrites_CaseSensitive(fullResponse, content) ==
  IF content # NoContent
    THEN <<ContentEvent(content)>>
         \o (IF Detect(FullResponseAfter(fullResponse, content))
               THEN <<EmergencyEvent>> ELSE <<>>)
    ELSE <<>>

\* The res.write calls of one loop iteration (routes.ts:375-391): nothing for
\* a chunk without content; otherwise the content event and, when the
\* lowercased fullResponse holds a phrase, an emergency event.
ChunkWrites(fullResponse, content) ==
  IF content # NoContent
    THEN <<ContentEvent(content)>>
         \o (IF Detect(ToLowerCase(FullResponseAfter(fullResponse, content)))
               THEN <<EmergencyEvent>> ELSE <<>>)
    ELSE <<>>

EndWrites_None == <<>>

\* The res.write after the loop (routes.ts:394)
EndWrites == <<DoneEvent>>

CatchWrites_Always(sent) == <<ErrorEvent>>

CatchWrites_ErrorThenDone(sent) == IF sent THEN <<ErrorEvent, DoneEvent>> ELSE <<>>

\* The catch block (routes.ts:396-404), by res.headersSent
CatchWrites(sent) == IF sent THEN <<ErrorEvent>> ELSE <<>>

CatchStatus_Always500(sent, status) == 500

CatchStatus(sent, status) == IF sent THEN status ELSE 500

CatchBody(sent, body) == IF sent THEN body ELSE "Failed to process chat request"

CatchEnds_JsonOnly(sent) == ~sent

\* The catch block ends the response on both branches: res.end() after the
\* error event, res.json() otherwise.
CatchEnds(sent) == TRUE

AfterCatch_Retry(to) == "start"

\* After the catch block the handler returns: it is not entered again.
AfterCatch(to) == to

\* res.write sends the headers with the first write of the response.  events
\* and headersSent follow the handler's calls: the handler never looks at the
\* connection, so a call made after the client has gone is recorded like any
\* other (what Node does with its bytes is outside routes.ts).
HeadersAfter(sent, writes) == sent \/ writes # <<>>

\* ----------------------------------------------------------------- framing
\* The bytes of the response are characters here: the texts of the model are
\* ASCII, for which TextDecoder.decode gives one character per byte.
DataPrefix == <<"d", "a", "t", "a", ":", " ">>

FrameEnd == <<"\n", "\n">>

\* JSON.stringify of one character inside a string literal, for the
\* characters the texts of the model use.
EscapeChar(c) ==
  IF c = "\"" THEN <<"\\", "\"">>
  ELSE IF c = "\\" THEN <<"\\", "\\">>
  ELSE IF c = "\n" THEN <<"\\", "n">>
  ELSE <<c>>

RECURSIVE Escape(_)
Escape(s) == IF s = <<>> THEN <<>> ELSE EscapeChar(Head(s)) \o Escape(Tail(s))

\* {"content":"
ContentOpen == <<"{", "\"", "c", "o", "n", "t", "e", "n", "t", "\"", ":", "\"">>

\* "}
ContentClose == <<"\"", "}">>

\* {"emergency":true}
EmergencyJson ==
  <<"{", "\"", "e", "m", "e", "r", "g", "e", "n", "c", "y", "\"", ":", "t", "r", "u", "e", "}">>

\* {"done":true}
DoneJson == <<"{", "\"", "d", "o", "n", "e", "\"", ":", "t", "r", "u", "e", "}">>

\* {"error":"Failed to get response"}
ErrorJson ==
  <<"{", "\"", "e", "r", "r", "o", "r", "\"", ":", "\"", "F", "a", "i", "l", "e", "d", " ",
    "t", "o", " ", "g", "e", "t", " ", "r", "e", "s", "p", "o", "n", "s", "e", "\"", "}">>

JsonStringify_Raw(e) ==
  IF e.type = "content" THEN ContentOpen \o e.content \o ContentClose
  ELSE IF e.type = "emergency" THEN EmergencyJson
  ELSE IF e.type = "done" THEN DoneJson
  ELSE ErrorJson

\* JSON.stringify of the object of each res.write
JsonStringify(e) ==
  IF e.type = "content" THEN ContentOpen \o Escape(e.content) \o ContentClose
  ELSE IF e.type = "emergency" THEN EmergencyJson
  ELSE IF e.type = "done" THEN DoneJson
  ELSE ErrorJson

\* `data: ${JSON.stringify(...)}\n\n`
Frame(e) == DataPrefix \o JsonStringify(e) \o FrameEnd

RECURSIVE Wire(_)
\* The bytes of the response body: the frames in write order.
Wire(evs) == IF evs = <<>> THEN <<>> ELSE Frame(Head(evs)) \o Wire(Tail(evs))

\* ------------------------------------------------------ the client's parser
RECURSIVE Split(_, _)
\* String.prototype.split with a one-character separator
Split(s, sep) ==
  IF \A i \in 1..Len(s) : s[i] # sep THEN <<s>>
  ELSE LET i == CHOOSE j \in 1..Len(s) : s[j] = sep /\ \A k \in 1..(j - 1) : s[k] # sep
       IN  <<SubSeq(s, 1, i - 1)>> \o Split(SubSeq(s, i + 1, Len(s)), sep)

\* String.prototype.startsWith
StartsWith(s, p) == Len(s) >= Len(p) /\ SubSeq(s, 1, Len(p)) = p

EndsWith(s, p) == Len(s) >= Len(p) /\ SubSeq(s, Len(s) - Len(p) + 1, Len(s)) = p

\* String.prototype.slice(n)
Slice(s, n) == SubSeq(s, n + 1, Len(s))

RECURSIVE Unescape(_)
\* The text of a JSON string literal's inside, as JSON.parse reads it: a raw
\* quote, a raw line break or an unknown escape is a syntax error.
Unescape(s) ==
  IF s = <<>> THEN [ok |-> TRUE, val |-> <<>>]
  ELSE IF Head(s) = "\\" THEN
    IF Len(s) < 2 THEN [ok |-> FALSE, val |-> <<>>]
    ELSE IF s[2] \notin {"\"", "\\", "n", "/"} THEN [ok |-> FALSE, val |-> <<>>]
    ELSE [ok |-> Unescape(Slice(s, 2)).ok,
          val |-> <<IF s[2] = "n" THEN "\n" ELSE s[2]>> \o Unescape(Slice(s, 2)).val]
  ELSE IF Head(s) \in {"\"", "\n"} THEN [ok |-> FALSE, val |-> <<>>]
  ELSE [ok |-> Unescape(Tail(s)).ok, val |-> <<Head(s)>> \o Unescape(Tail(s)).val]

\* The fields of a parsed object that the events use; ok is FALSE when the
\* parse throws.
Data(ok, content, emergency, done, error) ==
  [ok |-> ok, content |-> content, emergency |-> emergency, done |-> done, error |-> error]

\* JSON.parse(text) as the try block sees it: the four objects the relay
\* writes are recognised; for every other text ok is FALSE (the parse throws,
\* or gives a value without a content or emergency field: the catch is
\* empty, so both leave the client as it was).
JsonParse(text) ==
  IF /\ StartsWith(text, ContentOpen)
     /\ EndsWith(text, ContentClose)
     /\ Len(text) >= Len(ContentOpen) + Len(ContentClose)
     /\ Unescape(SubSeq(text, Len(ContentOpen) + 1, Len(text) - Len(ContentClose))).ok
    THEN Data(TRUE,
              Unescape(SubSeq(text, Len(ContentOpen) + 1, Len(text) - Len(ContentClose))).val,
              FALSE, FALSE, FALSE)
  ELSE IF text = EmergencyJson THEN Data(TRUE, <<>>, TRUE, FALSE, FALSE)
  ELSE IF text = DoneJson THEN Data(TRUE, <<>>, FALSE, TRUE, FALSE)
  ELSE IF text = ErrorJson THEN Data(TRUE, <<>>, FALSE, FALSE, TRUE)
  ELSE Data(FALSE, <<>>, FALSE, FALSE, FALSE)

\* What the loop body carries from line to line.
Assembly(assistantContent, isEmergency) ==
  [assistantContent |-> assistantContent, isEmergency |-> isEmergency]

AssistantContentAfter_Replaces(assistantContent, data) ==
  IF data.content # <<>> THEN data.content ELSE assistantContent

AssistantContentAfter_ShowsError(assistantContent, data) ==
  IF data.content # <<>> THEN assistantContent \o data.content
  ELSE IF data.error THEN assistantContent \o <<"!">>
  ELSE assistantContent

\* if (data.content) assistantContent += data.content
AssistantContentAfter(assistantContent, data) ==
  IF data.content # <<>> THEN assistantContent \o data.content ELSE assistantContent

IsEmergencyAfter_FollowsEvent(isEmergency, data) == data.emergency

\* if (data.emergency) setIsEmergency(true)
IsEmergencyAfter(isEmergency, data) == isEmergency \/ data.emergency

\* The body of for (const line of lines), AryaScreen.tsx:204-225
ApplyLine(a, line) ==
  IF StartsWith(line, DataPrefix) /\ JsonParse(Slice(line, 6)).ok
    THEN Assembly(AssistantContentAfter(a.assistantContent, JsonParse(Slice(line, 6))),
                  IsEmergencyAfter(a.isEmergency, JsonParse(Slice(line, 6))))
    ELSE a

RECURSIVE ApplyLines(_, _)
ApplyLines(a, lines) ==
  IF lines = <<>> THEN a ELSE ApplyLines(ApplyLine(a, Head(lines)), Tail(lines))

\* One read: lines = chunk.split("\n"), then the loop over the lines.  No
\* text is kept from one read to the next.
ApplyChunk(a, chunk) == ApplyLines(a, Split(chunk, "\n"))

\* ------------------------------------------------------------------- state
VARIABLES
  req,            \* req.body of the request
  pc,             \* where the handler is
  upstreamCalls,  \* how often sarvam.chat.completions.create was called
  chatMessages,   \* the messages argument of that call
  received,       \* the content of every chunk the loop has read, in order
  fullResponse,   \* let fullResponse
  events,         \* the events handed to res.write, in order
  headersSent,    \* res.headersSent
  statusCode,     \* res.statusCode
  jsonBody,       \* the error text of a res.json body, "" when none was sent
  ended,          \* res.end / res.json has been called
  sinkClosed,     \* the client has dropped the connection
  relays,         \* the handler activations of concurrent requests, by request
  messages,       \* AryaScreen: const [messages, setMessages]
  isLoading,      \* AryaScreen: const [isLoading, setIsLoading]
  isEmergency,    \* AryaScreen: const [isEmergency, setIsEmergency]
  clientPc,       \* where sendMessage is
  inFlight,       \* the activations of sendMessage that have not returned
  requestBody,    \* the body of the latest fetch
  assistantContent,    \* sendMessage: let assistantContent
  assistantMessageId,  \* sendMessage: const assistantMessageId
  served,         \* the events the relay wrote into the response being read
  unread,         \* the bytes of that response not yet delivered by reader.read()
  chronicConditions,     \* the names of the rows of table chronic_conditions
  alternativeMedicines,  \* the names of the rows of table alternative_medicines
  seedPc,         \* where each run of seedAlternativeMedicineData is
  permission,     \* the notification permission of the device
  scheduled,      \* the scheduled notifications of the device
  calls           \* the calls of scheduleCheckinNotifications: settings and place

\* The state of the one request that Spec and SpecCompose follow.
requestVars ==
  <<req, pc, upstreamCalls, chatMessages, received, fullResponse, events,
    headersSent, statusCode, jsonBody, ended, sinkClosed>>

\* The chat screen and the request it has in flight.
screenVars ==
  <<messages, isLoading, isEmergency, clientPc, inFlight, requestBody, assistantContent,
    assistantMessageId, served, unread>>

\* The seeded tables with the runs of the seed function, and the device's
\* notifications with the calls that schedule them.
sideVars ==
  <<chronicConditions, alternativeMedicines, seedPc, permission, scheduled, calls>>

\* What lies outside the relay's handler.
outside == <<screenVars, sideVars>>

vars == <<requestVars, relays, outside>>

\* The requests that are relayed at the same time.
RelayIds == {"a", "b"}

\* The locals of one activation of the handler whose create call is pending:
\* each activation has its own fullResponse and its own res.
Activation ==
  [pc |-> "awaitCreate", received |-> <<>>, fullResponse |-> <<>>, events |-> <<>>,
   headersSent |-> FALSE]

NoRelays == [r \in RelayIds |-> Activation]

\* ----------------------------------------------------------- the chat screen
\* One entry of the message list.  id stands for the Date.now() strings of
\* the code: the entry's position at the time it is appended (entries are
\* only ever appended, so the ids differ); the greeting's "greeting" is 0.
Message(id, role, content) == [id |-> id, role |-> role, content |-> content]

\* The opening of ARYA_GREETING
AryaGreeting == <<"N", "a", "m", "a", "s", "t", "e", "!">>

\* The opening of the message of the catch block
Apology == <<"I", " ", "a", "p", "o", "l", "o", "g", "i", "z", "e">>

InitialMessages_Empty == <<>>

\* useState<Message[]>([{id: "greeting", role: "assistant", content: ARYA_GREETING}])
InitialMessages == <<Message(0, "assistant", AryaGreeting)>>

\* No fetch has been made.
NoRequest ==
  Body(Messages("undefined", <<>>), Undefined,
       UserContext("undefined", Undefined, Undefined, NoList, NoList))

\* The screen after its first render.
ScreenMounted ==
  /\ messages = InitialMessages
  /\ isLoading = FALSE
  /\ isEmergency = FALSE
  /\ clientPc = "idle"
  /\ inFlight = 0
  /\ requestBody = NoRequest
  /\ assistantContent = <<>>
  /\ assistantMessageId = 0
  /\ served = <<>>
  /\ unread = <<>>

\* The seed function runs at most MaxSeedRuns times.
MaxSeedRuns == 3

SeedRuns == 1..MaxSeedRuns

\* Empty tables, every run of the seed function waiting for its select; no
\* notification scheduled, no permission asked for yet.
SideAtStart ==
  /\ chronicConditions = <<>>
  /\ alternativeMedicines = <<>>
  /\ seedPc = [r \in SeedRuns |-> "select"]
  /\ permission = "undetermined"
  /\ scheduled = <<>>
  /\ calls = <<>>

\* The state of a handler that has just been entered, for the body b.
Entered(b) ==
  /\ ScreenMounted
  /\ SideAtStart
  /\ req = b
  /\ pc = "start"
  /\ upstreamCalls = 0
  /\ chatMessages = <<>>
  /\ received = <<>>
  /\ fullResponse = <<>>
  /\ events = <<>>
  /\ headersSent = FALSE
  /\ statusCode = 200
  /\ jsonBody = ""
  /\ ended = FALSE
  /\ sinkClosed = FALSE
  /\ relays = NoRelays

Init == \E b \in RelayRequests : Entered(b)

InitCompose == \E b \in Requests : Entered(b)

\* routes.ts:339-341: return res.status(400).json({error: ...})
Reject ==
  /\ pc = "start"
  /\ ~ValidMessages(req.messages)
  /\ pc' = "rejected"
  /\ statusCode' = 400
  /\ jsonBody' = "Messages array is required"
  /\ headersSent' = TRUE
  /\ ended' = TRUE
  /\ UNCHANGED <<outside, relays, req, upstreamCalls, chatMessages, received, fullResponse, events,
                 sinkClosed>>

\* routes.ts:343-370: compose the turns and call create; the handler then
\* waits for the promise.  res.setHeader sends nothing.
CallUpstream ==
  /\ pc = "start"
  /\ ValidMessages(req.messages)
  /\ chatMessages' = ChatMessages(req.messages, req.systemPrompt, req.userContext)
  /\ upstreamCalls' = upstreamCalls + 1
  /\ pc' = "awaitCreate"
  /\ UNCHANGED <<outside, relays, req, received, fullResponse, events, headersSent, statusCode,
                 jsonBody, ended, sinkClosed>>

\* create resolves with the stream: let fullResponse = "", the loop starts.
CreateResolves ==
  /\ pc = "awaitCreate"
  /\ pc' = "loop"
  /\ fullResponse' = <<>>
  /\ UNCHANGED <<outside, relays, req, upstreamCalls, chatMessages, received, events, headersSent,
                 statusCode, jsonBody, ended, sinkClosed>>

\* The catch block; `to` records which await threw.
Catch(to) ==
  /\ pc' = AfterCatch(to)
  /\ events' = events \o CatchWrites(headersSent)
  /\ statusCode' = CatchStatus(headersSent, statusCode)
  /\ jsonBody' = CatchBody(headersSent, jsonBody)
  /\ headersSent' = TRUE
  /\ ended' = CatchEnds(headersSent)
  /\ UNCHANGED <<outside, relays, req, upstreamCalls, chatMessages, received, fullResponse, sinkClosed>>

\* create rejects.
CreateRejects == pc = "awaitCreate" /\ Catch("failedCreate")

\* One iteration of for await (const chunk of stream), routes.ts:374-392.
NextChunk(content) ==
  /\ pc = "loop"
  /\ Len(received) < MaxChunks
  /\ received' = Append(received, content)
  /\ fullResponse' = FullResponseAfter(fullResponse, content)
  /\ events' = events \o ChunkWrites(fullResponse, content)
  /\ headersSent' = HeadersAfter(headersSent, ChunkWrites(fullResponse, content))
  /\ UNCHANGED <<outside, relays, req, pc, upstreamCalls, chatMessages, statusCode, jsonBody, ended,
                 sinkClosed>>

\* The stream ends: routes.ts:394-395.
StreamEnds ==
  /\ pc = "loop"
  /\ pc' = "completed"
  /\ events' = events \o EndWrites
  /\ headersSent' = HeadersAfter(headersSent, EndWrites)
  /\ ended' = TRUE
  /\ UNCHANGED <<outside, relays, req, upstreamCalls, chatMessages, received, fullResponse, statusCode,
                 jsonBody, sinkClosed>>

\* The stream throws while the loop awaits its next chunk.
StreamThrows == pc = "loop" /\ Catch("failedStream")

\* The client drops the connection while the request is in flight.  The
\* handler registers no close listener and tests no property of res or req
\* for it, so nothing else of the handler's state changes.
ClientDisconnect ==
  /\ pc \in {"awaitCreate", "loop"}
  /\ ~sinkClosed
  /\ sinkClosed' = TRUE
  /\ UNCHANGED <<outside, relays, req, pc, upstreamCalls, chatMessages, received, fullResponse, events,
                 headersSent, statusCode, jsonBody, ended>>

Next ==
  \/ Reject
  \/ CallUpstream
  \/ CreateResolves
  \/ CreateRejects
  \/ \E content \in ChunkContents : NextChunk(content)
  \/ StreamEnds
  \/ StreamThrows
  \/ ClientDisconnect

Spec == Init /\ [][Next]_vars

\* The synchronous part of the handler alone, over every request body.
NextCompose == Reject \/ CallUpstream

SpecCompose == InitCompose /\ [][NextCompose]_vars

\* ------------------------------------------------------ concurrent requests
\* Node runs one handler step at a time; the steps of different requests
\* interleave at their awaits.  Each step below is a step of the handler
\* above, taken by the activation of request r on its own locals.

\* What one upstream chunk may carry in the concurrent runs.
ConcurrentChunks == {NoContent, SpCall911, CapCall, Digits911}

ScanBuffer_Shared(rs, r) == rs["a"].fullResponse \o rs["b"].fullResponse

\* The fullResponse that the iteration of request r appends to and scans:
\* the let of its own activation (routes.ts:372).
ScanBuffer(rs, r) == rs[r].fullResponse

RelayCreateResolves(r) ==
  /\ relays[r].pc = "awaitCreate"
  /\ relays' = [relays EXCEPT ![r].pc = "loop"]
  /\ UNCHANGED <<requestVars, outside>>

RelayNextChunk(r, content) ==
  /\ relays[r].pc = "loop"
  /\ Len(relays[r].received) < MaxConcurrentChunks
  /\ relays' =
       [relays EXCEPT
          ![r].received = Append(@, content),
          ![r].fullResponse = FullResponseAfter(ScanBuffer(relays, r), content),
          ![r].events = @ \o ChunkWrites(ScanBuffer(relays, r), content),
          ![r].headersSent =
             HeadersAfter(@, ChunkWrites(ScanBuffer(relays, r), content))]
  /\ UNCHANGED <<requestVars, outside>>

RelayStreamEnds(r) ==
  /\ relays[r].pc = "loop"
  /\ relays' =
       [relays EXCEPT
          ![r].pc = "completed",
          ![r].events = @ \o EndWrites,
          ![r].headersSent = HeadersAfter(@, EndWrites)]
  /\ UNCHANGED <<requestVars, outside>>

RelayStreamThrows(r) ==
  /\ relays[r].pc = "loop"
  /\ relays' =
       [relays EXCEPT
          ![r].pc = AfterCatch("failedStream"),
          ![r].events = @ \o CatchWrites(relays[r].headersSent),
          ![r].headersSent = TRUE]
  /\ UNCHANGED <<requestVars, outside>>

InitConcurrent ==
  Entered(Body(ArrayOf(<<Turn("user", "I have a mild headache")>>), Str("be concise"),
               UserContext("null", Undefined, Undefined, NoList, NoList)))

NextConcurrent ==
  \E r \in RelayIds :
    \/ RelayCreateResolves(r)
    \/ \E content \in ConcurrentChunks : RelayNextChunk(r, content)
    \/ RelayStreamEnds(r)
    \/ RelayStreamThrows(r)

SpecConcurrent == InitConcurrent /\ [][NextConcurrent]_vars

\* --------------------------------------------------- the detection phrases
\* Upstream texts that each hold one of the phrases of routes.ts:382-387.
\* "Please call 911"
TextCall911 ==
  <<"P", "l", "e", "a", "s", "e", " ", "c", "a", "l", "l", " ", "9", "1", "1">>

\* " or Call 112"
TextCall112 ==
  <<" ", "o", "r", " ", "C", "a", "l", "l", " ", "1", "1", "2">>

\* " / call 108"
TextCall108 ==
  <<" ", "/", " ", "c", "a", "l", "l", " ", "1", "0", "8">>

\* " go to the Emergency Room"
TextEmergencyRoom ==
  <<" ", "g", "o", " ", "t", "o", " ", "t", "h", "e", " ", "E", "m", "e", "r", "g",
    "e", "n", "c", "y", " ", "R", "o", "o", "m">>

\* " seek immediate care"
TextSeekImmediate ==
  <<" ", "s", "e", "e", "k", " ", "i", "m", "m", "e", "d", "i", "a", "t", "e", " ",
    "c", "a", "r", "e">>

\* " it is life-threatening"
TextLifeThreatening ==
  <<" ", "i", "t", " ", "i", "s", " ", "l", "i", "f", "e", "-", "t", "h", "r", "e",
    "a", "t", "e", "n", "i", "n", "g">>

PhraseTexts ==
  {YouShould, TextCall911, TextCall112, TextCall108, TextEmergencyRoom, TextSeekImmediate,
   TextLifeThreatening}

InitPhrases ==
  Entered(Body(ArrayOf(<<Turn("assistant", "I have a mild headache"),
                         Turn("user", "It started today")>>),
               Str("be concise"),
               UserContext("null", Undefined, Undefined, NoList, NoList)))

\* The relay of one valid request whose stream runs to its end, over the
\* texts above.
NextPhrases ==
  \/ CallUpstream
  \/ CreateResolves
  \/ \E content \in PhraseTexts : NextChunk(content)
  \/ StreamEnds

SpecPhrases == InitPhrases /\ [][NextPhrases]_vars

\* ------------------------------------------------ the chat screen's requests
\* At most MaxRequests messages are sent from one screen.
MaxRequests == 2

RECURSIVE TrimStart(_)
TrimStart(s) == IF s # <<>> /\ Head(s) \in {" ", "\n", "\t"} THEN TrimStart(Tail(s)) ELSE s

RECURSIVE TrimEnd(_)
TrimEnd(s) ==
  IF s # <<>> /\ s[Len(s)] \in {" ", "\n", "\t"} THEN TrimEnd(SubSeq(s, 1, Len(s) - 1)) ELSE s

\* String.prototype.trim
Trim(s) == TrimEnd(TrimStart(s))

\* What the input field may hold when the send button is pressed: nothing,
\* blanks, " fever " and "cough".
InputTexts ==
  {<<>>, <<" ", " ">>, <<" ", "f", "e", "v", "e", "r", " ">>, <<"c", "o", "u", "g", "h">>}

Returns_IgnoresLoading(inputText, loading) == Trim(inputText) = <<>>

\* if (!inputText.trim() || isLoading) return;
Returns(inputText, loading) == Trim(inputText) = <<>> \/ loading

IsUserMessage(m) == m.role = "user"

\* [...].map((m) => ({role: m.role, content: m.content}))
RequestTurns(msgs) == [i \in 1..Len(msgs) |-> Turn(msgs[i].role, msgs[i].content)]

\* The body of the fetch: the list of this render with the new message
\* appended; no user is signed in (userContext: null).
FetchBody(msgs, userMessage) ==
  Body(ArrayOf(RequestTurns(Append(msgs, userMessage))), Str("You are ARYA"),
       UserContext("null", Undefined, Undefined, NoList, NoList))

\* sendMessage up to its first await (AryaScreen.tsx:142-177).  The handler
\* runs on the state of the latest render: React renders again before the
\* next press is handled.
SendMessage(inputText) ==
  \/ /\ Returns(inputText, isLoading)
     /\ UNCHANGED vars
  \/ /\ ~Returns(inputText, isLoading)
     /\ Len(SelectSeq(messages, IsUserMessage)) < MaxRequests
     /\ messages' = Append(messages, Message(Len(messages), "user", Trim(inputText)))
     /\ isLoading' = TRUE
     /\ requestBody' = FetchBody(messages, Message(Len(messages), "user", Trim(inputText)))
     /\ inFlight' = inFlight + 1
     /\ clientPc' = "fetching"
     /\ UNCHANGED <<isEmergency, assistantContent, assistantMessageId, served, unread,
                    requestVars, relays, sideVars>>

\* The catch block and the finally block (AryaScreen.tsx:227-240).
Fails ==
  /\ messages' = Append(messages, Message(Len(messages), "assistant", Apology))
  /\ isLoading' = FALSE
  /\ inFlight' = inFlight - 1
  /\ clientPc' = "failed"
  /\ UNCHANGED <<isEmergency, requestBody, assistantContent, assistantMessageId, served,
                 unread, requestVars, relays, sideVars>>

\* What fetch resolves with: response.ok, whether response.body is there, and
\* the events the relay wrote into the body.
Response(ok, hasBody, evs) == [ok |-> ok, hasBody |-> hasBody, events |-> evs]

RECURSIVE RelayWrites(_, _)
\* The writes of the relay's loop over the chunks of one stream.
RelayWrites(full, chunks) ==
  IF chunks = <<>> THEN <<>>
  ELSE ChunkWrites(full, Head(chunks))
       \o RelayWrites(FullResponseAfter(full, Head(chunks)), Tail(chunks))

\* The response of the relay to a valid request whose stream delivers
\* `chunks` and then ends (completed = TRUE) or throws: the event stream with
\* status 200, or the status 500 document when the catch block finds no
\* header sent.
RelayResponse(chunks, completed) ==
  IF completed THEN Response(TRUE, TRUE, RelayWrites(<<>>, chunks) \o EndWrites)
  ELSE IF RelayWrites(<<>>, chunks) # <<>>
    THEN Response(TRUE, TRUE, RelayWrites(<<>>, chunks) \o CatchWrites(TRUE))
  ELSE Response(CatchStatus(FALSE, 200) = 200, TRUE, <<>>)

\* fetch resolves (AryaScreen.tsx:179-195): a response that is not ok or has
\* no body throws; otherwise the empty assistant message is appended and the
\* read loop starts.
FetchResolves(response) ==
  /\ clientPc = "fetching"
  /\ IF ~response.ok \/ ~response.hasBody THEN Fails
     ELSE /\ assistantContent' = <<>>
          /\ assistantMessageId' = Len(messages)
          /\ messages' = Append(messages, Message(Len(messages), "assistant", <<>>))
          /\ served' = response.events
          /\ unread' = Wire(response.events)
          /\ clientPc' = "reading"
          /\ UNCHANGED <<isLoading, isEmergency, inFlight, requestBody, requestVars, relays, sideVars>>

\* fetch rejects.
FetchRejects == clientPc = "fetching" /\ Fails

\* setMessages(prev => prev.map(m => m.id === assistantMessageId ? {...m, content} : m))
WithContent(msgs, id, content) ==
  [i \in 1..Len(msgs) |->
     IF msgs[i].id = id THEN Message(msgs[i].id, msgs[i].role, content) ELSE msgs[i]]

\* reader.read() resolves with the next n bytes (AryaScreen.tsx:198-225); the
\* message is set again for every line that carries content.
Read(n) ==
  /\ clientPc = "reading"
  /\ n \in 1..Len(unread)
  /\ unread' = Slice(unread, n)
  /\ assistantContent' =
       ApplyChunk(Assembly(assistantContent, isEmergency), SubSeq(unread, 1, n)).assistantContent
  /\ isEmergency' =
       ApplyChunk(Assembly(assistantContent, isEmergency), SubSeq(unread, 1, n)).isEmergency
  /\ messages' =
       IF assistantContent' # assistantContent
         THEN WithContent(messages, assistantMessageId, assistantContent')
         ELSE messages
  /\ UNCHANGED <<isLoading, clientPc, inFlight, requestBody, assistantMessageId, served,
                 requestVars, relays, sideVars>>

\* reader.read() resolves with done: break, then finally.
ReadDone ==
  /\ clientPc = "reading"
  /\ unread = <<>>
  /\ isLoading' = FALSE
  /\ inFlight' = inFlight - 1
  /\ clientPc' = "ended"
  /\ UNCHANGED <<messages, isEmergency, requestBody, assistantContent, assistantMessageId,
                 served, unread, requestVars, relays, sideVars>>

\* reader.read() rejects.
ReadThrows == clientPc = "reading" /\ Fails

\* "Hi"<line break> with its quotes
QuotedLine == <<"\"", "H", "i", "\"", "\n">>

\* The upstream streams behind the responses of the screen's runs.
ScreenStreams == {<<>>, <<QuotedLine, NoContent, SpCall911>>}

ScreenResponses ==
  {RelayResponse(chunks, completed) : chunks \in ScreenStreams, completed \in BOOLEAN}
  \cup {Response(TRUE, FALSE, <<>>)}

\* The read sizes that end on the blank line of a frame.
WholeEvents(bytes) == {n \in 2..Len(bytes) : SubSeq(bytes, n - 1, n) = FrameEnd}

\* The screen over several messages, every read delivering whole events.
NextScreen ==
  \/ \E inputText \in InputTexts : SendMessage(inputText)
  \/ \E response \in ScreenResponses : FetchResolves(response)
  \/ FetchRejects
  \/ \E n \in WholeEvents(unread) : Read(n)
  \/ ReadDone
  \/ ReadThrows

SpecScreen == InitConcurrent /\ [][NextScreen]_vars

\* The upstream streams behind the responses whose bytes arrive in reads of
\* any size.
WireStreams == {<<>>, <<QuotedLine>>, <<SpCall911>>, <<QuotedLine, SpCall911>>}

WireResponses ==
  {RelayResponse(chunks, completed) : chunks \in WireStreams, completed \in BOOLEAN}

\* The first request of a screen, the transport cutting the response
\* anywhere.
NextWire ==
  \/ \E inputText \in InputTexts : requestBody = NoRequest /\ SendMessage(inputText)
  \/ \E response \in WireResponses : FetchResolves(response)
  \/ FetchRejects
  \/ \E n \in 1..Len(unread) : Read(n)
  \/ ReadDone
  \/ ReadThrows

SpecWire == InitConcurrent /\ [][NextWire]_vars

\* ------------------------------------------------------------------ seeding
\* The names of the rows of the first insert (routes.ts:293-304).
SeedConditions ==
  <<"Diabetes Type 2", "Hypertension", "Arthritis", "Asthma", "Migraine", "Chronic Pain",
    "Anxiety", "Depression", "Insomnia", "IBS">>

\* The names of the rows of the second insert (routes.ts:306-322).
SeedMedicines ==
  <<"Turmeric (Curcumin)", "Ashwagandha", "Cinnamon", "Omega-3 Fish Oil", "Ginger",
    "Magnesium", "Probiotics", "Valerian Root", "CBD Oil", "Acupuncture", "Yoga",
    "Meditation", "Glucosamine", "Feverfew", "Berberine">>

\* name: text("name").notNull().unique(): an insert is refused as a whole
\* when one of its names is in the table.
Accepts(rows, new) ==
  \A i \in 1..Len(new) : \A j \in 1..Len(rows) : rows[j] # new[i]

\* The select of run r resolves: return when a condition exists, otherwise
\* issue the first insert (routes.ts:288-293).
SelectResolves(r) ==
  /\ seedPc[r] = "select"
  /\ seedPc' =
       [seedPc EXCEPT ![r] = IF Len(chronicConditions) > 0 THEN "returned"
                             ELSE "insertConditions"]
  /\ UNCHANGED <<chronicConditions, alternativeMedicines, permission, scheduled, calls,
                 requestVars, relays, screenVars>>

\* The first insert of run r is executed; the second is issued when it
\* resolves, the catch block is entered when it is refused (routes.ts:293-306).
InsertConditions(r) ==
  /\ seedPc[r] = "insertConditions"
  /\ IF Accepts(chronicConditions, SeedConditions)
       THEN /\ chronicConditions' = chronicConditions \o SeedConditions
            /\ seedPc' = [seedPc EXCEPT ![r] = "insertMedicines"]
       ELSE /\ chronicConditions' = chronicConditions
            /\ seedPc' = [seedPc EXCEPT ![r] = "failed"]
  /\ UNCHANGED <<alternativeMedicines, permission, scheduled, calls, requestVars, relays,
                 screenVars>>

\* The second insert of run r is executed (routes.ts:306-324).
InsertMedicines(r) ==
  /\ seedPc[r] = "insertMedicines"
  /\ IF Accepts(alternativeMedicines, SeedMedicines)
       THEN /\ alternativeMedicines' = alternativeMedicines \o SeedMedicines
            /\ seedPc' = [seedPc EXCEPT ![r] = "seeded"]
       ELSE /\ alternativeMedicines' = alternativeMedicines
            /\ seedPc' = [seedPc EXCEPT ![r] = "failed"]
  /\ UNCHANGED <<chronicConditions, permission, scheduled, calls, requestVars, relays,
                 screenVars>>

\* A pending statement of run r rejects without effect (the connection is
\* lost, the statement times out): the catch block logs (routes.ts:325-327).
SeedThrows(r) ==
  /\ seedPc[r] \in {"select", "insertConditions", "insertMedicines"}
  /\ seedPc' = [seedPc EXCEPT ![r] = "failed"]
  /\ UNCHANGED <<chronicConditions, alternativeMedicines, permission, scheduled, calls,
                 requestVars, relays, screenVars>>

\* The runs of the seed function, their statements interleaving at the awaits.
NextSeed ==
  \E r \in SeedRuns :
    \/ SelectResolves(r)
    \/ InsertConditions(r)
    \/ InsertMedicines(r)
    \/ SeedThrows(r)

SpecSeed == InitConcurrent /\ [][NextSeed]_vars

\* ------------------------------------------------------------ notifications
\* scheduleCheckinNotifications is called at most MaxCalls times.
MaxCalls == 2

\* The settings a call may be given: disabled, enabled without and with the
\* reminder, and enabled with the reminder at other hours.
SettingsValues ==
  {[enabled |-> FALSE, reminderEnabled |-> TRUE, primaryTime |-> "09:00",
    reminderTime |-> "20:00"],
   [enabled |-> TRUE, reminderEnabled |-> FALSE, primaryTime |-> "09:00",
    reminderTime |-> "20:00"],
   [enabled |-> TRUE, reminderEnabled |-> TRUE, primaryTime |-> "09:00",
    reminderTime |-> "20:00"],
   [enabled |-> TRUE, reminderEnabled |-> TRUE, primaryTime |-> "07:30",
    reminderTime |-> "21:00"]}

\* The request handed to scheduleNotificationAsync: a daily trigger.
Daily(title, time) == [title |-> title, time |-> time]

\* The calls in flight are on a device (Platform.OS is not "web").  A call
\* runs to its first await: getPermissionsAsync is pending.
ScheduleCall(settings) ==
  /\ Len(calls) < MaxCalls
  /\ calls' = Append(calls, [settings |-> settings, pc |-> "getPermissions"])
  /\ UNCHANGED <<permission, scheduled, chronicConditions, alternativeMedicines, seedPc,
                 requestVars, relays, screenVars>>

\* getPermissionsAsync resolves (useNotifications.ts:21-32).
PermissionsResolve(c) ==
  /\ calls[c].pc = "getPermissions"
  /\ calls' =
       [calls EXCEPT ![c].pc = IF permission = "granted" THEN "cancelAll"
                               ELSE "requestPermissions"]
  /\ UNCHANGED <<permission, scheduled, chronicConditions, alternativeMedicines, seedPc,
                 requestVars, relays, screenVars>>

\* requestPermissionsAsync resolves with the user's answer (a status already
\* decided is kept); the call goes on only when granted (26-32).
RequestResolves(c, status) ==
  /\ calls[c].pc = "requestPermissions"
  /\ permission = "undetermined" \/ status = permission
  /\ permission' = status
  /\ calls' = [calls EXCEPT ![c].pc = IF status = "granted" THEN "cancelAll" ELSE "returned"]
  /\ UNCHANGED <<scheduled, chronicConditions, alternativeMedicines, seedPc, requestVars,
                 relays, screenVars>>

\* cancelAllScheduledNotificationsAsync resolves; a call with disabled
\* settings returns, the others schedule the daily notification (32-36).
CancelResolves(c) ==
  /\ calls[c].pc = "cancelAll"
  /\ scheduled' = <<>>
  /\ calls' =
       [calls EXCEPT ![c].pc = IF calls[c].settings.enabled THEN "schedulePrimary"
                               ELSE "returned"]
  /\ UNCHANGED <<permission, chronicConditions, alternativeMedicines, seedPc, requestVars,
                 relays, screenVars>>

\* The first scheduleNotificationAsync resolves (36-50).
PrimaryResolves(c) ==
  /\ calls[c].pc = "schedulePrimary"
  /\ scheduled' =
       Append(scheduled, Daily("Daily Health Check-in", calls[c].settings.primaryTime))
  /\ calls' =
       [calls EXCEPT ![c].pc = IF calls[c].settings.reminderEnabled THEN "scheduleReminder"
                               ELSE "returned"]
  /\ UNCHANGED <<permission, chronicConditions, alternativeMedicines, seedPc, requestVars,
                 relays, screenVars>>

\* The second scheduleNotificationAsync resolves (50-62).
ReminderResolves(c) ==
  /\ calls[c].pc = "scheduleReminder"
  /\ scheduled' =
       Append(scheduled, Daily("Health Check-in Reminder", calls[c].settings.reminderTime))
  /\ calls' = [calls EXCEPT ![c].pc = "returned"]
  /\ UNCHANGED <<permission, chronicConditions, alternativeMedicines, seedPc, requestVars,
                 relays, screenVars>>

\* A pending call of the notifications module rejects: the catch block logs
\* (63-65).
CallThrows(c) ==
  /\ calls[c].pc \in {"getPermissions", "requestPermissions", "cancelAll", "schedulePrimary",
                      "scheduleReminder"}
  /\ calls' = [calls EXCEPT ![c].pc = "failed"]
  /\ UNCHANGED <<permission, scheduled, chronicConditions, alternativeMedicines, seedPc,
                 requestVars, relays, screenVars>>

\* The calls of scheduleCheckinNotifications, none of them awaited by its
\* caller, interleaving at their awaits.
NextNotify ==
  \/ \E settings \in SettingsValues : ScheduleCall(settings)
  \/ \E c \in 1..Len(calls) :
       \/ PermissionsResolve(c)
       \/ \E status \in {"granted", "denied"} : RequestResolves(c, status)
       \/ CancelResolves(c)
       \/ PrimaryResolves(c)
       \/ ReminderResolves(c)
       \/ CallThrows(c)

SpecNotify == InitConcurrent /\ [][NextNotify]_vars

\* =================================================================== claims
\* ------------------------------------------------- vocabulary of the claims
CountType(evs, t) == Cardinality({i \in 1..Len(evs) : evs[i].type = t})

IsContent(e) == e.type = "content"

\* The payloads of the content events, in write order.
ContentPayloads(evs) ==
  [i \in 1..Len(SelectSeq(evs, IsContent)) |-> SelectSeq(evs, IsContent)[i].content]

HasContent(c) == c # NoContent

\* The fragments upstream has delivered: the chunks that carry text.
Fragments == SelectSeq(received, HasContent)

RECURSIVE Concat(_)
Concat(ss) == IF ss = <<>> THEN <<>> ELSE Head(ss) \o Concat(Tail(ss))

\* The accumulated response text after fragment k.
Accumulated(k) == Concat(SubSeq(Fragments, 1, k))

\* The detection set as the specification lists it.
DetectionPhrases ==
  {Call911, Call112, Call108, EmergencyRoom, SeekImmediate, LifeThreatening}

ContainsPhrase(text) == \E p \in DetectionPhrases : Includes(ToLowerCase(text), p)

MatchingFragments == {k \in 1..Len(Fragments) : ContainsPhrase(Accumulated(k))}

\* The first fragment after which the accumulated text holds a phrase.
FirstMatch == CHOOSE k \in MatchingFragments : \A j \in MatchingFragments : k <= j

\* The position in events of the k-th content event.
ContentPos(k) ==
  CHOOSE i \in 1..Len(events) :
    /\ events[i].type = "content"
    /\ Cardinality({j \in 1..i : events[j].type = "content"}) = k

IsTerminal(e) == e.type \in {"done", "error"}

UpstreamFailed == pc \in {"failedCreate", "failedStream"}

\* ----------------------------------------------------------------------- C1
\* C1: the events written for one request hold at most one emergency event,
\* whatever fragments follow the first one.
C1_AtMostOneEmergency == CountType(events, "emergency") <= 1

\* ----------------------------------------------------------------------- C2
\* C2: when fragment k is the first after which the accumulated text holds a
\* detection phrase, an emergency event stands directly after the k-th content
\* event (so before the content event of fragment k+1 and before the terminal
\* event), and no emergency event stands before the k-th content event.
C2_EmergencyRightAfterFirstMatch ==
  MatchingFragments # {} =>
    /\ CountType(events, "content") >= FirstMatch
    /\ ContentPos(FirstMatch) < Len(events)
    /\ events[ContentPos(FirstMatch) + 1].type = "emergency"
    /\ \A i \in 1..ContentPos(FirstMatch) : events[i].type # "emergency"

\* A stream whose phrase is completed by its second fragment, with a fragment
\* after it.
C2_Witness ==
  /\ MatchingFragments # {}
  /\ FirstMatch = 2
  /\ Len(Fragments) = 3
  /\ pc = "completed"

\* ----------------------------------------------------------------------- C3
\* C3: the payloads of the content events, in write order, are exactly the
\* fragments upstream delivered, in arrival order, one event per fragment.
C3_ContentEventsAreFragments == ContentPayloads(events) = Fragments

\* Two different fragments and a chunk without content have been relayed.
C3_Witness ==
  /\ Len(Fragments) >= 2
  /\ Fragments[1] # Fragments[2]
  /\ Len(received) > Len(Fragments)
  /\ pc = "completed"

\* ----------------------------------------------------------------------- C4
\* C4: when upstream fails (the call or the stream) before any content event
\* was written, the response is one JSON error document with status 500 and
\* no stream event at all.
C4_FailureBeforeContentIsJson500 ==
  (UpstreamFailed /\ CountType(events, "content") = 0) =>
    /\ statusCode = 500
    /\ jsonBody = "Failed to process chat request"
    /\ events = <<>>
    /\ ended

\* The stream failed after chunks had arrived, none of them carrying text.
C4_Witness ==
  /\ pc = "failedStream"
  /\ received # <<>>
  /\ Fragments = <<>>
  /\ statusCode = 500

\* ----------------------------------------------------------------------- C5
\* C5: when the stream fails after at least one content event was written,
\* the relay writes exactly one error event, as the last event, and ends the
\* response; it writes no done event, leaves the status code alone and sends
\* no JSON body.
C5_FailureAfterContentIsErrorEvent ==
  (pc = "failedStream" /\ CountType(events, "content") >= 1) =>
    /\ events[Len(events)].type = "error"
    /\ CountType(events, "error") = 1
    /\ CountType(events, "done") = 0
    /\ statusCode = 200
    /\ jsonBody = ""
    /\ ended

C5_Witness ==
  /\ pc = "failedStream"
  /\ CountType(events, "content") >= 2
  /\ events[Len(events)].type = "error"

\* ----------------------------------------------------------------------- C6
\* C6: a body without messages, or whose messages is no array, is answered
\* 400 {error: "Messages array is required"}, with no upstream call and no
\* stream event.
C6_BadMessagesRejected ==
  (req.messages.kind # "array" /\ pc # "start") =>
    /\ pc = "rejected"
    /\ statusCode = 400
    /\ jsonBody = "Messages array is required"
    /\ ended
    /\ upstreamCalls = 0
    /\ chatMessages = <<>>
    /\ events = <<>>

\* A truthy value that is no array has been answered.
C6_Witness ==
  /\ req.messages.kind \in {"string", "object"}
  /\ pc = "rejected"
  /\ statusCode = 400

\* ----------------------------------------------------------------------- C7
\* What the claim expects of each field of the block.
ExpectedName(u) == IF u.name \in {Undefined, Str("")} THEN "Unknown" ELSE u.name.val

ExpectedRole(u) == IF u.role \in {Undefined, Str("")} THEN "layperson" ELSE u.role.val

\* A list that is missing, empty or renders as the empty text gives the
\* default; any other list its items joined by ", ".
ExpectedList(l) ==
  IF l = NoList \/ Join(l.val, ", ") = "" THEN "None recorded" ELSE Join(l.val, ", ")

ExpectedBlock(u) ==
  "\n\nUser Context:\n- Name: " \o ExpectedName(u) \o "\n- Role: " \o ExpectedRole(u)
  \o "\n- Known conditions: " \o ExpectedList(u.conditions)
  \o "\n- Known allergies: " \o ExpectedList(u.allergies)

DefaultBlock ==
  "\n\nUser Context:\n- Name: Unknown\n- Role: layperson\n- Known conditions: None recorded\n- Known allergies: None recorded"

ExpectedPrompt == IF req.systemPrompt.def THEN req.systemPrompt.val ELSE ""

C8_NothingAfterDisconnect ==
  [][sinkClosed => (received' = received /\ events' = events)]_vars

\* ----------------------------------------------------------------------- C9
\* C9: when the stream ends without error the relay has written exactly one
\* done event, after the events of all fragments, and has ended the response;
\* a done event is never followed by another event.
C9_DoneClosesCompletedStream ==
  /\ pc = "completed" =>
       /\ events # <<>>
       /\ events[Len(events)].type = "done"
       /\ CountType(events, "done") = 1
       /\ CountType(events, "content") = Len(Fragments)
       /\ ended
  /\ \A i \in 1..Len(events) : events[i].type = "done" => i = Len(events)

\* A stream of three fragments has completed.
C9_Witness ==
  /\ pc = "completed"
  /\ Len(Fragments) = 3
  /\ events[Len(events)].type = "done"

\* ---------------------------------------------------------------------- C10
\* C10: in a response that carries stream events, a terminal event (done or
\* error) is always the last event written, everything before it is a content
\* or an emergency event, and an ended response holds exactly one terminal
\* event: never done and error together, never two of either.
C10_OneTerminalEventLast ==
  /\ \A i \in 1..Len(events) :
       /\ events[i].type \in {"content", "emergency", "done", "error"}
       /\ IsTerminal(events[i]) => i = Len(events)
  /\ (ended /\ events # <<>>) =>
       CountType(events, "done") + CountType(events, "error") = 1

\* A stream that had relayed an emergency failed and was closed by an error
\* event.
C10_Witness ==
  /\ ended
  /\ CountType(events, "emergency") >= 1
  /\ events[Len(events)].type = "error"

\* ---------------------------------------------------------------------- C11
\* Fragment k completes a phrase that no single fragment holds: the text
\* accumulated before it holds no phrase, the text after it does, and none of
\* the fragments 1..k holds a phrase by itself.
CompletesSplitPhrase(k) ==
  /\ ContainsPhrase(Accumulated(k))
  /\ ~ContainsPhrase(Accumulated(k - 1))
  /\ \A j \in 1..k : ~ContainsPhrase(Fragments[j])

\* C11: a detection phrase split across consecutive fragments is detected: an
\* emergency event stands directly after the content event of the fragment
\* that completes it.
C11_SplitPhraseDetected ==
  \A k \in 1..Len(Fragments) :
    CompletesSplitPhrase(k) =>
      /\ CountType(events, "content") >= k
      /\ ContentPos(k) < Len(events)
      /\ events[ContentPos(k) + 1].type = "emergency"

\* "Call " then "911" have been relayed and the stream has completed.
C11_Witness ==
  /\ pc = "completed"
  /\ Len(Fragments) >= 2
  /\ CompletesSplitPhrase(2)
  /\ CountType(events, "emergency") >= 1

\* ---------------------------------------------------------------------- C12
\* Some phrase occurs in the text as it stands, without lowercasing.
ContainsPhraseVerbatim(text) == \E p \in DetectionPhrases : Includes(text, p)

\* C12: a completed stream carries an emergency event exactly when the
\* lowercased concatenation of all its content fragments holds a detection
\* phrase.
C12_EmergencyIffPhrase ==
  pc = "completed" =>
    (CountType(events, "emergency") >= 1
       <=> ContainsPhrase(Concat(ContentPayloads(events))))

\* A completed stream whose phrase is found only because case is ignored.
C12_Witness ==
  /\ pc = "completed"
  /\ CountType(events, "emergency") >= 1
  /\ ~ContainsPhraseVerbatim(Concat(ContentPayloads(events)))

\* ---------------------------------------------------------------------- C13
FailurePath == pc \in {"rejected", "failedCreate", "failedStream"}

\* C13: on every failure path (bad request, upstream failure before or during
\* streaming) the response has been ended when the handler returns.
C13_FailureEndsResponse == FailurePath => ended

\* The stream failed after events had been written, and the response is
\* ended.
C13_Witness == pc = "failedStream" /\ events # <<>> /\ ended

\* ---------------------------------------------------------------------- C14
\* C14: the relay opens the upstream completion stream at most once per
\* request, also after an upstream failure.
C14_AtMostOneUpstreamCall == upstreamCalls <= 1

\* The stream has failed and the one call is all there was.
C14_Witness == pc = "failedStream" /\ upstreamCalls = 1 /\ ended

\* ---------------------------------------------------------------------- C15
RECURSIVE AloneWrites(_, _)
\* The events the loop writes for the chunks of one stream when its request
\* is the only one, starting from the buffer `full`.
AloneWrites(full, chunks) ==
  IF chunks = <<>> THEN <<>>
  ELSE ChunkWrites(full, Head(chunks))
       \o AloneWrites(FullResponseAfter(full, Head(chunks)), Tail(chunks))

\* The whole event sequence of a lone request that read `chunks` and stands
\* at `at`.
AloneEvents(chunks, at) ==
  AloneWrites(<<>>, chunks)
  \o (IF at = "completed" THEN <<DoneEvent>>
      ELSE IF at = "failedStream" /\ AloneWrites(<<>>, chunks) # <<>> THEN <<ErrorEvent>>
      ELSE <<>>)

\* C15: with the fragments of concurrent requests interleaved in any order,
\* each response's event sequence is the one its request gives alone: its
\* content events carry its own fragments only, and it holds an emergency
\* event only for a phrase in its own text.
C15_ConcurrentRequestsIndependent ==
  \A r \in RelayIds :
    /\ relays[r].events = AloneEvents(relays[r].received, relays[r].pc)
    /\ ContentPayloads(relays[r].events) = SelectSeq(relays[r].received, HasContent)
    /\ CountType(relays[r].events, "emergency") >= 1
         => ContainsPhrase(Concat(SelectSeq(relays[r].received, HasContent)))

\* Request a has relayed a phrase and written its emergency event, request b
\* has relayed text between a's steps and completed without one; and the two
\* texts together, in b's order, would hold a phrase.
C15_Witness ==
  /\ CountType(relays["a"].events, "emergency") >= 1
  /\ relays["b"].pc = "completed"
  /\ relays["b"].received = <<CapCall>>
  /\ relays["a"].received = <<Digits911, SpCall911>>
  /\ CountType(relays["b"].events, "emergency") = 0

C17_OnlyUserOrAssistantForwarded ==
  pc = "awaitCreate" =>
    \A i \in 2..Len(chatMessages) : chatMessages[i].role \in {"user", "assistant"}

\* ---------------------------------------------------------------------- C18
\* C18: a request whose messages is an empty array is rejected before any
\* upstream call.
C18_EmptyMessagesRejected ==
  (req.messages = ArrayOf(<<>>) /\ pc # "start") =>
    /\ pc = "rejected"
    /\ upstreamCalls = 0

\* ---------------------------------------------------------------------- C19
\* The text of a list field as the claim states it: the default for a missing
\* or empty list, the items joined by ", " for a non-empty one.
ClaimedList(l) ==
  IF l = NoList \/ l.val = <<>> THEN "None recorded" ELSE Join(l.val, ", ")

\* The same, with the default also for a list that renders as the empty text
\* (one empty item).
RenderedList(l) ==
  IF l = NoList \/ l.val = <<>> \/ l.val = <<"">> THEN "None recorded"
  ELSE Join(l.val, ", ")

ClaimedName(u) == IF u.name = Undefined \/ u.name.val = "" THEN "Unknown" ELSE u.name.val

ClaimedRole(u) == IF u.role = Undefined THEN "layperson" ELSE u.role.val

\* C19 as stated: with userContext present each field of the block falls back
\* on its own, and every non-empty list is rendered as its items joined.
C19_FieldsFallBackSeparately ==
  (pc = "awaitCreate" /\ req.userContext.kind = "object") =>
    chatMessages[1].content =
      ExpectedPrompt \o "\n\nUser Context:\n- Name: " \o ClaimedName(req.userContext)
      \o "\n- Role: " \o ClaimedRole(req.userContext)
      \o "\n- Known conditions: " \o ClaimedList(req.userContext.conditions)
      \o "\n- Known allergies: " \o ClaimedList(req.userContext.allergies)

\* C19 as amended: the same, except that a list holding one empty item is
\* rendered as the default too.
C19_FieldsFallBackSeparatelyByText ==
  (pc = "awaitCreate" /\ req.userContext.kind = "object") =>
    chatMessages[1].content =
      ExpectedPrompt \o "\n\nUser Context:\n- Name: " \o ClaimedName(req.userContext)
      \o "\n- Role: " \o ClaimedRole(req.userContext)
      \o "\n- Known conditions: " \o RenderedList(req.userContext.conditions)
      \o "\n- Known allergies: " \o RenderedList(req.userContext.allergies)

\* An empty name next to a given role, an empty conditions list next to a
\* given allergies list: two defaults and two values in one block.
C19_Witness ==
  /\ pc = "awaitCreate"
  /\ req.userContext.kind = "object"
  /\ req.userContext.name = Str("")
  /\ req.userContext.conditions = List(<<>>)
  /\ chatMessages[1].content =
       "be concise\n\nUser Context:\n- Name: Unknown\n- Role: doctor\n- Known conditions: None recorded\n- Known allergies: penicillin"

\* ---------------------------------------------------------------------- C20
\* The phrases of the claim that occur in the lowercased text.
PhrasesIn(text) == {p \in DetectionPhrases : Includes(ToLowerCase(text), p)}

\* C20: each of the six phrases is in the detection set: whenever the
\* accumulated response holds exactly one of them, whichever it is, the
\* content event of that fragment is followed by an emergency event.
C20_EachPhraseDetected ==
  \A p \in DetectionPhrases :
    \A k \in 1..Len(Fragments) :
      PhrasesIn(Accumulated(k)) = {p} =>
        /\ CountType(events, "content") >= k
        /\ ContentPos(k) < Len(events)
        /\ events[ContentPos(k) + 1].type = "emergency"

\* "call 108" alone, after a fragment without a phrase, has raised the
\* emergency event.
C20_Witness ==
  /\ pc = "completed"
  /\ Len(Fragments) = 2
  /\ PhrasesIn(Accumulated(1)) = {}
  /\ PhrasesIn(Accumulated(2)) = {Call108}
  /\ events[ContentPos(2) + 1].type = "emergency"
\* ---------------------------------------------------------------------- C21
\* The emergency event stands directly after the k-th content event.
EmergencyFollows(k) ==
  /\ ContentPos(k) < Len(events)
  /\ events[ContentPos(k) + 1].type = "emergency"

\* C21: at every point of a stream fullResponse is the concatenation, in
\* write order, of the payloads of the content events written so far (so it
\* grows only by the fragment just written), and the scan after the k-th
\* fragment sees the lowercase text of fragments 1..k: an emergency event
\* follows the k-th content event exactly when that text holds a phrase.
C21_BufferIsConcatenationOfPayloads ==
  /\ fullResponse = Concat(ContentPayloads(events))
  /\ fullResponse = Accumulated(Len(Fragments))
  /\ \A k \in 1..CountType(events, "content") :
       EmergencyFollows(k) <=> Detect(ToLowerCase(Accumulated(k)))

\* Three fragments are in the buffer, the scan has matched after the second
\* and the loop is still running.
C21_Witness ==
  /\ pc = "loop"
  /\ Len(Fragments) = 3
  /\ ~EmergencyFollows(1)
  /\ EmergencyFollows(2)
  /\ Len(fullResponse) > Len(Fragments[3])

\* ---------------------------------------------------------------------- C23
\* The step is a loop iteration on a chunk without content.
EmptyChunkStep == pc = "loop" /\ received' = Append(received, NoContent)

\* C23: a chunk without content writes no event, leaves fullResponse alone
\* and does not send the headers; a failure after only such chunks is the
\* status 500 JSON error.
C23_EmptyChunkIsSilent ==
  /\ [][EmptyChunkStep =>
         (events' = events /\ fullResponse' = fullResponse /\ headersSent' = headersSent)]_vars
  /\ []((pc = "failedStream" /\ received # <<>> /\ Fragments = <<>>) =>
         (events = <<>> /\ statusCode = 500
          /\ jsonBody = "Failed to process chat request" /\ ended))

\* Two chunks without content arrived, then the stream failed.
C23_Witness ==
  /\ pc = "failedStream"
  /\ received = <<NoContent, NoContent>>
  /\ jsonBody = "Failed to process chat request"
  /\ ~sinkClosed
\* ------------------------------------------ vocabulary of the screen's claims
\* The event a parsed object stands for.
EventOf(data) ==
  IF data.content # <<>> THEN ContentEvent(data.content)
  ELSE IF data.emergency THEN EmergencyEvent
  ELSE IF data.done THEN DoneEvent
  ELSE ErrorEvent

IsEventLine(line) == StartsWith(line, DataPrefix) /\ JsonParse(Slice(line, 6)).ok

\* The events the client's line parser recovers from `bytes`.
ParsedEvents(bytes) ==
  [i \in 1..Len(SelectSeq(Split(bytes, "\n"), IsEventLine)) |->
     EventOf(JsonParse(Slice(SelectSeq(Split(bytes, "\n"), IsEventLine)[i], 6)))]

\* The bytes of the response that the reads have delivered.
Delivered == SubSeq(Wire(served), 1, Len(Wire(served)) - Len(unread))

\* A response body is being read or has been read to its end.
Streaming == clientPc \in {"reading", "ended"}

ApologyCount(msgs) == Cardinality({i \in 1..Len(msgs) : msgs[i].content = Apology})

\* The texts of the user turns, in order.
UserTexts(turns) ==
  [i \in 1..Len(SelectSeq(turns, IsUserMessage)) |-> SelectSeq(turns, IsUserMessage)[i].content]

\* ---------------------------------------------------------------------- C22
\* C22: when every read delivers whole events, the line parser recovers from
\* the delivered bytes exactly the events the relay framed, in order and
\* with their payloads (line breaks and quotes included), and the assistant
\* text assembled so far is the concatenation of their content payloads; at
\* the end of the stream it is the concatenation of all content fragments.
C22_FramingRoundTrips ==
  Streaming =>
    /\ ParsedEvents(Delivered) \o ParsedEvents(unread) = served
    /\ ParsedEvents(Wire(served)) = served
    /\ assistantContent = Concat(ContentPayloads(ParsedEvents(Delivered)))
    /\ clientPc = "ended" => assistantContent = Concat(ContentPayloads(served))

\* A stream of two fragments, the first with quotes and a line break, has
\* been read to its end.
C22_Witness ==
  /\ clientPc = "ended"
  /\ ContentPayloads(served) = <<QuotedLine, SpCall911>>
  /\ assistantContent = QuotedLine \o SpCall911
  /\ isEmergency

\* ---------------------------------------------------------------------- C24
\* C24: however the transport cuts the response into reads, after the stream
\* has ended the assembled assistant text is the concatenation of all content
\* fragments the relay wrote, and the emergency flag is set if the relay
\* wrote an emergency event.
C24_AnySplitAssembles ==
  clientPc = "ended" =>
    /\ assistantContent = Concat(ContentPayloads(served))
    /\ CountType(served, "emergency") >= 1 => isEmergency

\* ---------------------------------------------------------------------- C25
\* The step is a read of bytes that all belong to the done or error event
\* that closes the stream.
TerminalBytesStep ==
  /\ clientPc = "reading"
  /\ clientPc' = "reading"
  /\ served # <<>>
  /\ IsTerminal(served[Len(served)])
  /\ Len(unread) <= Len(Frame(served[Len(served)]))

\* C25: reading an error event or a done event leaves the message list, the
\* assembled assistant text and the emergency flag as they were; the apology
\* is appended only by a step that leaves the fetch or the read loop through
\* the catch block, so a stream read to its end, error event or not, ends
\* without it.
C25_InBandErrorChangesNothing ==
  /\ [][TerminalBytesStep =>
         (messages' = messages /\ assistantContent' = assistantContent
          /\ isEmergency' = isEmergency)]_vars
  /\ [][ApologyCount(messages') > ApologyCount(messages) =>
         (clientPc \in {"fetching", "reading"} /\ clientPc' = "failed"
          /\ unread' = unread)]_vars
  /\ [](Streaming => ApologyCount(messages) = 0)

\* A stream that closed with the error event has been read to its end after
\* text had been assembled.
C25_Witness ==
  /\ clientPc = "ended"
  /\ served[Len(served)] = ErrorEvent
  /\ assistantContent = QuotedLine
  /\ messages[Len(messages)].content = QuotedLine
  /\ ~isLoading

\* ---------------------------------------------------------------------- C26
\* The bytes delivered so far hold the whole frame of an emergency event.
EmergencyDelivered ==
  \E k \in 1..Len(served) :
    /\ served[k] = EmergencyEvent
    /\ Len(Wire(SubSeq(served, 1, k))) <= Len(Delivered)

\* C26: the emergency flag starts false, is true once the first emergency
\* event of a request has arrived, and no step sets it back to false.
C26_EmergencyFlagIsLatch ==
  /\ [][isEmergency => isEmergency']_vars
  /\ [](clientPc = "idle" => ~isEmergency)
  /\ []((Streaming /\ EmergencyDelivered) => isEmergency)

\* ---------------------------------------------------------------------- C27
\* C27: isLoading is true exactly while sendMessage is between its first
\* await and its finally block, at most one activation of sendMessage exists,
\* every exit (stream end, catch block) leaves isLoading false, and while
\* isLoading is true no request is sent and no user message is added.
C27_LoadingIffInFlight ==
  /\ [](isLoading <=> clientPc \in {"fetching", "reading"})
  /\ [](inFlight = IF isLoading THEN 1 ELSE 0)
  /\ [][isLoading =>
         (requestBody' = requestBody /\ UserTexts(messages') = UserTexts(messages))]_vars

\* The second request of a screen has failed after the first had ended.
C27_Witness ==
  /\ clientPc = "failed"
  /\ ~isLoading
  /\ inFlight = 0
  /\ Len(UserTexts(messages)) = 2
  /\ ApologyCount(messages) = 1
  /\ messages[Len(messages)].content = Apology

\* ---------------------------------------------------------------------- C28
\* C28: in every request the screen sends, the first turn, the one the relay
\* drops, is the greeting, and the user turns of the upstream turn sequence
\* are the messages the user has typed so far, the newest included, in the
\* order they were typed.
C28_EveryTypedMessageReachesUpstream ==
  requestBody # NoRequest =>
    /\ ValidMessages(requestBody.messages)
    /\ requestBody.messages.turns[1] = Turn("assistant", AryaGreeting)
    /\ UserTexts(ChatMessages(requestBody.messages, requestBody.systemPrompt,
                              requestBody.userContext))
         = UserTexts(messages)

\* The second request is in flight: two different messages were typed, with
\* an answer between them.
C28_Witness ==
  /\ clientPc = "fetching"
  /\ UserTexts(messages) = <<<<"c", "o", "u", "g", "h">>, <<"f", "e", "v", "e", "r">>>>
  /\ Len(requestBody.messages.turns) = 4
  /\ requestBody.messages.turns[3].content = QuotedLine \o SpCall911
\* ---------------------------------------------------------------------- C29
\* Every name stands at most once in the table.
NoDuplicates(rows) == \A i, j \in 1..Len(rows) : rows[i] = rows[j] => i = j

\* No run of the seed function is under way.
SeedRunsOver == \A r \in SeedRuns : seedPc[r] \in {"returned", "seeded", "failed"}

\* C29: no table ever holds a row twice, and once the runs of the seed
\* function are over and one of them has completed (it seeded, or it found
\* the data and returned), whatever the others did or failed at, the store
\* holds the 10 conditions and the 15 medicines, once each.
C29_SeedingIsIdempotent ==
  /\ NoDuplicates(chronicConditions)
  /\ NoDuplicates(alternativeMedicines)
  /\ (SeedRunsOver /\ \E r \in SeedRuns : seedPc[r] \in {"returned", "seeded"}) =>
       /\ chronicConditions = SeedConditions
       /\ alternativeMedicines = SeedMedicines
\* ---------------------------------------------------------------------- C30
\* What the settings of one call ask for.
ExpectedSchedule(settings) ==
  IF ~settings.enabled THEN <<>>
  ELSE IF ~settings.reminderEnabled
    THEN <<Daily("Daily Health Check-in", settings.primaryTime)>>
  ELSE <<Daily("Daily Health Check-in", settings.primaryTime),
         Daily("Health Check-in Reminder", settings.reminderTime)>>

\* Every call has returned without an error, with the permission granted.
CallsFinished ==
  /\ calls # <<>>
  /\ permission = "granted"
  /\ \A c \in 1..Len(calls) : calls[c].pc = "returned"

\* C30: once every call of scheduleCheckinNotifications has finished, with
\* the permission granted, the scheduled notifications are those of the
\* settings of the last call: none when disabled, the daily one when enabled
\* without reminder, the daily one and the reminder otherwise; never more
\* than two.
C30_LastCallDecidesSchedule ==
  CallsFinished =>
    /\ scheduled = ExpectedSchedule(calls[Len(calls)].settings)
    /\ Len(scheduled) <= 2

====
